---- MODULE Spec2Model ----
(***************************************************************************)
(* P2PTransport (src/src/transports/P2PTransport.ts) as a state machine.   *)
(*                                                                         *)
(* The transport is single-threaded cooperative code: every `await` is a   *)
(* suspension point, the code between two awaits runs atomically.  Each    *)
(* action below is one such atomic stretch of one call (a "task"), or one  *)
(* step of a collaborator (a per-peer call settling, a new-peer            *)
(* notification being delivered).                                      *)
(*                                                                         *)
(* Collaborators (storage, crypto-channel client, event handler) are       *)
(* modelled by what the transport observes of them:                        *)
(*   storage.get  returns a fresh copy of the persisted list;              *)
(*   storage.set  replaces the persisted list when it is called, or is     *)
(*                rejected and changes nothing;                            *)
(*   client.listenForEncryptedMessage / client.sendMessage are pending     *)
(*                until the collaborator settles them, with success or     *)
(*                with failure; a successful listen adds one inbound       *)
(*                subscription for the identity;                           *)
(*   client.start, client.openChannel, client.listenForChannelOpening,     *)
(*                client.getHandshakeInfo and the unsubscribe calls        *)
(*                return.                                                  *)
(***************************************************************************)
EXTENDS Integers, Sequences, FiniteSets, TLC

\* ------------------------------------------------------------- bounds
NumPeers == 2
MaxTasks == 2
MaxCallbacks == 2

PubKeyNames == <<"A", "B", "C", "D", "E">>
PubKeys == {PubKeyNames[i] : i \in 1..NumPeers}
Tasks == 1..MaxTasks
Callbacks == 1..MaxCallbacks
HandshakeInfos == {"hs1", "hs2"}
NoRecipient == "none"

\* ------------------------------------------------------------- state
VARIABLES
  isDapp,                       \* constructor argument
  status,                       \* Transport._isConnected
  listeningForChannelOpenings,  \* the "listen once" flag
  storage,                      \* persisted StorageKey.TRANSPORT_P2P_PEERS
  startCalls,                   \* client.start() calls
  listeners,                    \* owners of the callbacks installed by listenForChannelOpening
  handshakeCalls,               \* client.getHandshakeInfo() calls
  openChannelCalls,             \* client.openChannel calls, per pubKey
  subs,                         \* active inbound subscriptions, per pubKey
  emitted,                      \* events handed to events.emit
  named,                        \* pubKeys the persisted list, a call or a notification named so far
  op, arg, pc,                  \* per task: operation, argument, position
  xpc,                          \* per task: position of connectNewPeer's executor
  paired,                       \* per task: connectNewPeer's promise is resolved
  peers,                        \* per task: the list storage.get returned
  calls,                        \* per task: per-peer collaborator calls issued, in order
  rejected,                     \* per task: index of the first rejected call (0: none)
  info,                         \* per task: what getHandshakeInfo returned
  cb                            \* invocations of the new-peer callback

clientVars == <<startCalls, listeners, handshakeCalls, openChannelCalls, subs>>
taskVars == <<op, arg, pc, xpc, paired, peers, calls, rejected, info>>
vars == <<isDapp, status, listeningForChannelOpenings, storage, clientVars,
          emitted, named, taskVars, cb>>

\* ------------------------------------------------------------ helpers
Min(S) == CHOOSE x \in S : \A y \in S : x <= y

\* The membership test comparing the wrong field.
SomePeerByName(list, pubKey) == \E i \in DOMAIN list : list[i].name = pubKey

\* The membership test with the comparison negated.
SomePeerOther(list, pubKey) == \E i \in DOMAIN list : list[i].pubKey # pubKey

\* knownPeers.some((peer) => peer.pubKey === pubKey)
SomePeer(list, pubKey) == \E i \in DOMAIN list : list[i].pubKey = pubKey

\* peers.filter((peer) => peer.pubKey !== pubKey)
FilterPeers(list, pubKey) == SelectSeq(list, LAMBDA peer : peer.pubKey # pubKey)

PubKeysOf(list) == {list[i].pubKey : i \in DOMAIN list}

\* The peer objects handed to addPeer / removePeer.
PeerArg(k) == [name |-> "wallet", pubKey |-> k, relayServer |-> "relay"]

\* { name: '', pubKey, relayServer: '' }
HandshakePeer(pubKey) == [name |-> "", pubKey |-> pubKey, relayServer |-> ""]

\* The pushed record with name and pubKey taken from each other's field.
AddedPeerSwapped(newPeer) ==
  [name |-> newPeer.pubKey, pubKey |-> newPeer.name, relayServer |-> newPeer.relayServer]

\* { name: newPeer.name, pubKey: newPeer.pubKey, relayServer: newPeer.relayServer }
AddedPeer(newPeer) ==
  [name |-> newPeer.name, pubKey |-> newPeer.pubKey, relayServer |-> newPeer.relayServer]

NoDuplicates(list) ==
  \A i, j \in DOMAIN list : list[i].pubKey = list[j].pubKey => i = j

\* Peer lists a previous session can have persisted.  Nothing in the transport
\* tells one pubKey from another, so a list of n distinct peers stands for every
\* list of n distinct peers.
PersistedLists == {[i \in 1..n |-> PeerArg(PubKeyNames[i])] : n \in 0..NumPeers}

Pending(k) == [to |-> k, st |-> "pending"]

Settled(cs) == \A i \in DOMAIN cs : cs[i].st # "pending"
AllOk(cs) == \A i \in DOMAIN cs : cs[i].st = "ok"

\* The pubKeys an input may name next.  The transport treats pubKeys alike, so of
\* the pubKeys nothing has named yet one stands for all.
Nameable ==
  named \cup {NoRecipient} \cup
  {k \in PubKeys : \E i \in 1..NumPeers :
                     /\ k = PubKeyNames[i]
                     /\ \A j \in 1..(i - 1) : PubKeyNames[j] \in named}

IdleTasks == {t \in Tasks : op[t] = "idle"}
FreeCallbacks == {c \in Callbacks : cb[c].pc = "free"}

NoCallback == [key |-> NoRecipient, owner |-> 0, pc |-> "free", peers |-> <<>>, st |-> "none"]

\* ---------------------------------------------------------------- Init
Init ==
  /\ isDapp \in BOOLEAN
  /\ status = "NOT_CONNECTED"
  /\ listeningForChannelOpenings = FALSE
  /\ storage \in PersistedLists
  /\ startCalls = 0
  /\ listeners = {}
  /\ handshakeCalls = 0
  /\ openChannelCalls = [k \in PubKeys |-> 0]
  /\ subs = [k \in PubKeys |-> 0]
  /\ emitted = {}
  /\ named = PubKeysOf(storage)
  /\ op = [t \in Tasks |-> "idle"]
  /\ arg = [t \in Tasks |-> NoRecipient]
  /\ pc = [t \in Tasks |-> "idle"]
  /\ xpc = [t \in Tasks |-> "none"]
  /\ paired = [t \in Tasks |-> FALSE]
  /\ peers = [t \in Tasks |-> <<>>]
  /\ calls = [t \in Tasks |-> <<>>]
  /\ rejected = [t \in Tasks |-> 0]
  /\ info = [t \in Tasks |-> "none"]
  /\ cb = [c \in Callbacks |-> NoCallback]

\* A call starts in the lowest idle task slot.
Begin(t, o, a, p) ==
  /\ IdleTasks # {}
  /\ t = Min(IdleTasks)
  /\ a \in Nameable
  /\ named' = named \cup ({a} \ {NoRecipient})
  /\ op' = [op EXCEPT ![t] = o]
  /\ arg' = [arg EXCEPT ![t] = a]
  /\ pc' = [pc EXCEPT ![t] = p]

\* ------------------------------------------------------------- listen
\* private listen(pubKey): the call to client.listenForEncryptedMessage, pending
\* until the collaborator settles it.
Listen(pubKey) == Pending(pubKey)

\* ------------------------------------------------------------ addPeer
\* addPeer(newPeer), up to the first await: storage.get is called.
AddPeer(t, k) ==
  /\ Begin(t, "addPeer", k, "awaitGet")
  /\ peers' = [peers EXCEPT ![t] = storage]
  /\ UNCHANGED <<isDapp, status, listeningForChannelOpenings, storage, clientVars,
                 emitted, xpc, paired, calls, rejected, info, cb>>

\* The list addPeer hands to storage.set.
AddPeerList(list, newPeer) == Append(list, AddedPeer(newPeer))

\* After storage.get: the duplicate check; a new peer is pushed and storage.set called.
AddPeerCheck(t) ==
  /\ op[t] = "addPeer" /\ pc[t] = "awaitGet"
  /\ IF ~SomePeer(peers[t], arg[t])
       THEN /\ peers' = [peers EXCEPT ![t] = AddPeerList(peers[t], PeerArg(arg[t]))]
            /\ storage' = peers'[t]
            /\ pc' = [pc EXCEPT ![t] = "awaitSet"]
       ELSE /\ pc' = [pc EXCEPT ![t] = "done"]
            /\ UNCHANGED <<peers, storage>>
  /\ UNCHANGED <<isDapp, status, listeningForChannelOpenings, clientVars, emitted,
                 named, op, arg, xpc, paired, calls, rejected, info, cb>>

\* The same stretch when storage.set is rejected: the await throws, addPeer rejects.
AddPeerSetRejected(t) ==
  /\ op[t] = "addPeer" /\ pc[t] = "awaitGet"
  /\ ~SomePeer(peers[t], arg[t])
  /\ peers' = [peers EXCEPT ![t] = AddPeerList(peers[t], PeerArg(arg[t]))]
  /\ pc' = [pc EXCEPT ![t] = "failed"]
  /\ UNCHANGED <<isDapp, status, listeningForChannelOpenings, storage, clientVars,
                 emitted, named, op, arg, xpc, paired, calls, rejected, info, cb>>

\* After storage.set: client.openChannel(newPeer.pubKey, newPeer.relayServer).
AddPeerOpenChannel(t) ==
  /\ op[t] = "addPeer" /\ pc[t] = "awaitSet"
  /\ openChannelCalls' = [openChannelCalls EXCEPT ![arg[t]] = @ + 1]
  /\ pc' = [pc EXCEPT ![t] = "awaitOpen"]
  /\ UNCHANGED <<isDapp, status, listeningForChannelOpenings, storage, startCalls,
                 listeners, handshakeCalls, subs, emitted, named, op, arg, xpc,
                 paired, peers, calls, rejected, info, cb>>

\* After openChannel: this.listen(newPeer.pubKey).
AddPeerListen(t) ==
  /\ op[t] = "addPeer" /\ pc[t] = "awaitOpen"
  /\ calls' = [calls EXCEPT ![t] = <<Listen(arg[t])>>]
  /\ pc' = [pc EXCEPT ![t] = "awaitListen"]
  /\ UNCHANGED <<isDapp, status, listeningForChannelOpenings, storage, clientVars,
                 emitted, named, op, arg, xpc, paired, peers, rejected, info, cb>>

\* After listen settled: addPeer resolves, or rejects with the listen error.
AddPeerDone(t) ==
  /\ op[t] = "addPeer" /\ pc[t] = "awaitListen"
  /\ Settled(calls[t])
  /\ pc' = [pc EXCEPT ![t] = IF AllOk(calls[t]) THEN "done" ELSE "failed"]
  /\ UNCHANGED <<isDapp, status, listeningForChannelOpenings, storage, clientVars,
                 emitted, named, op, arg, xpc, paired, peers, calls, rejected,
                 info, cb>>

\* --------------------------------------------------------- removePeer
\* removePeer(peerToBeRemoved), up to the first await: storage.get is called.
RemovePeer(t, k) ==
  /\ Begin(t, "removePeer", k, "awaitGet")
  /\ peers' = [peers EXCEPT ![t] = storage]
  /\ UNCHANGED <<isDapp, status, listeningForChannelOpenings, storage, clientVars,
                 emitted, xpc, paired, calls, rejected, info, cb>>

\* After storage.get: the filtered list is handed to storage.set.
RemovePeerSet(t) ==
  /\ op[t] = "removePeer" /\ pc[t] = "awaitGet"
  /\ peers' = [peers EXCEPT ![t] = FilterPeers(peers[t], arg[t])]
  /\ storage' = peers'[t]
  /\ pc' = [pc EXCEPT ![t] = "awaitSet"]
  /\ UNCHANGED <<isDapp, status, listeningForChannelOpenings, clientVars, emitted,
                 named, op, arg, xpc, paired, calls, rejected, info, cb>>

\* After storage.set: client.unsubscribeFromEncryptedMessage(pubKey).
RemovePeerUnsubscribe(t) ==
  /\ op[t] = "removePeer" /\ pc[t] = "awaitSet"
  /\ subs' = [subs EXCEPT ![arg[t]] = 0]
  /\ pc' = [pc EXCEPT ![t] = "done"]
  /\ UNCHANGED <<isDapp, status, listeningForChannelOpenings, storage, startCalls,
                 listeners, handshakeCalls, openChannelCalls, emitted, named, op,
                 arg, xpc, paired, peers, calls, rejected, info, cb>>

\* ----------------------------------------------------- removeAllPeers
\* removeAllPeers(), up to the first await: storage.set(key, []) is called.
RemoveAllPeers(t) ==
  /\ Begin(t, "removeAllPeers", NoRecipient, "awaitSet")
  /\ storage' = <<>>
  /\ UNCHANGED <<isDapp, status, listeningForChannelOpenings, clientVars, emitted,
                 xpc, paired, peers, calls, rejected, info, cb>>

\* After storage.set: client.unsubscribeFromEncryptedMessages().
RemoveAllPeersUnsubscribe(t) ==
  /\ op[t] = "removeAllPeers" /\ pc[t] = "awaitSet"
  /\ subs' = [k \in PubKeys |-> 0]
  /\ pc' = [pc EXCEPT ![t] = "done"]
  /\ UNCHANGED <<isDapp, status, listeningForChannelOpenings, storage, startCalls,
                 listeners, handshakeCalls, openChannelCalls, emitted, named, op,
                 arg, xpc, paired, peers, calls, rejected, info, cb>>

\* ------------------------------------------- collaborator: listen settles
\* client.listenForEncryptedMessage of call i of task t settles: installed, or failed.
ListenSettles(t, i, ok) ==
  /\ op[t] \in {"addPeer", "connect"}
  /\ i \in DOMAIN calls[t]
  /\ calls[t][i].st = "pending"
  /\ calls' = [calls EXCEPT ![t][i].st = IF ok THEN "ok" ELSE "failed"]
  /\ subs' = IF ok THEN [subs EXCEPT ![calls[t][i].to] = @ + 1] ELSE subs
  /\ rejected' = IF ~ok /\ rejected[t] = 0 THEN [rejected EXCEPT ![t] = i] ELSE rejected
  /\ UNCHANGED <<isDapp, status, listeningForChannelOpenings, storage, startCalls,
                 listeners, handshakeCalls, openChannelCalls, emitted, named, op,
                 arg, pc, xpc, paired, peers, info, cb>>

\* -------------------------------------------------------- Promise.all
\* Promise.race in the place of Promise.all: settled by the first call to settle.
PromiseRace(cs, rej) ==
  IF rej # 0 THEN "rejected"
  ELSE IF \E i \in DOMAIN cs : cs[i].st = "ok" THEN "fulfilled" ELSE "pending"

\* Promise.all over the calls cs, rej the index of the first one rejected:
\* rejected as soon as one is, fulfilled once all are.
PromiseAll(cs, rej) ==
  IF rej # 0 THEN "rejected" ELSE IF AllOk(cs) THEN "fulfilled" ELSE "pending"

\* ----------------------------------------------------- connectNewPeer
\* The promise executor of connectNewPeer up to its first await: with the flag
\* unset client.listenForChannelOpening(callback) is called, else
\* client.getHandshakeInfo().
ConnectNewPeer(t) ==
  IF ~listeningForChannelOpenings
    THEN /\ listeners' = listeners \cup {t}
         /\ xpc' = [xpc EXCEPT ![t] = "awaitListen"]
         /\ UNCHANGED handshakeCalls
    ELSE /\ handshakeCalls' = handshakeCalls + 1
         /\ xpc' = [xpc EXCEPT ![t] = "awaitInfo"]
         /\ UNCHANGED listeners

\* connectNewPeer() called directly.
ConnectNewPeerCall(t) ==
  /\ Begin(t, "connectNewPeer", NoRecipient, "awaitPair")
  /\ ConnectNewPeer(t)
  /\ UNCHANGED <<isDapp, status, listeningForChannelOpenings, storage, startCalls,
                 openChannelCalls, subs, emitted, paired, peers, calls,
                 rejected, info, cb>>

\* After listenForChannelOpening returned: the flag is set, getHandshakeInfo called.
ConnectNewPeerListening(t) ==
  /\ xpc[t] = "awaitListen"
  /\ listeningForChannelOpenings' = TRUE
  /\ handshakeCalls' = handshakeCalls + 1
  /\ xpc' = [xpc EXCEPT ![t] = "awaitInfo"]
  /\ UNCHANGED <<isDapp, status, storage, startCalls, listeners, openChannelCalls,
                 subs, emitted, named, op, arg, pc, paired, peers, calls,
                 rejected, info, cb>>

\* An advertisement fetched once and reused.
StaleAdvertisement(h) == "hs1"

\* The payload of the P2P_LISTEN_FOR_CHANNEL_OPEN event for handshake info h.
Advertisement(h) == h

\* After getHandshakeInfo returned h: the advertisement is emitted.
ConnectNewPeerAdvertise(t, h) ==
  /\ xpc[t] = "awaitInfo"
  /\ info' = [info EXCEPT ![t] = h]
  /\ emitted' = emitted \cup
       {[ev |-> "P2P_LISTEN_FOR_CHANNEL_OPEN", data |-> Advertisement(h), by |-> t]}
  /\ xpc' = [xpc EXCEPT ![t] = "done"]
  /\ UNCHANGED <<isDapp, status, listeningForChannelOpenings, storage, clientVars,
                 named, op, arg, pc, paired, peers, calls, rejected, cb>>

\* connectNewPeer's promise was resolved by the callback: the awaiting call returns.
ConnectNewPeerResolved(t) ==
  /\ op[t] \in {"connectNewPeer", "reconnect"} /\ pc[t] = "awaitPair"
  /\ paired[t]
  /\ pc' = [pc EXCEPT ![t] = "done"]
  /\ UNCHANGED <<isDapp, status, listeningForChannelOpenings, storage, clientVars,
                 emitted, named, op, arg, xpc, paired, peers, calls, rejected,
                 info, cb>>

\* ---------------------------------------------------------- reconnect
Reconnect(t) ==
  /\ IF isDapp
       THEN /\ Begin(t, "reconnect", NoRecipient, "awaitPair")
            /\ ConnectNewPeer(t)
       ELSE /\ Begin(t, "reconnect", NoRecipient, "done")
            /\ UNCHANGED <<listeners, handshakeCalls, xpc>>
  /\ UNCHANGED <<isDapp, status, listeningForChannelOpenings, storage, startCalls,
                 openChannelCalls, subs, emitted, paired, peers, calls,
                 rejected, info, cb>>

\* ------------------------------------------------------------ connect
\* Transport.connect of the base class: the state becomes CONNECTED.
SuperConnect == status' = "CONNECTED"

\* connect(), up to the first await: CONNECTING, client.start() is called.
Connect(t) ==
  /\ Begin(t, "connect", NoRecipient, "awaitStart")
  /\ status' = "CONNECTING"
  /\ startCalls' = startCalls + 1
  /\ UNCHANGED <<isDapp, listeningForChannelOpenings, storage, listeners,
                 handshakeCalls, openChannelCalls, subs, emitted, xpc,
                 paired, peers, calls, rejected, info, cb>>

\* After client.start(): storage.get is called.
ConnectGet(t) ==
  /\ op[t] = "connect" /\ pc[t] = "awaitStart"
  /\ peers' = [peers EXCEPT ![t] = storage]
  /\ pc' = [pc EXCEPT ![t] = "awaitGet"]
  /\ UNCHANGED <<isDapp, status, listeningForChannelOpenings, storage, clientVars,
                 emitted, named, op, arg, xpc, paired, calls, rejected, info, cb>>

\* knownPeers.map(async (peer) => this.listen(peer.pubKey))
ConnectionPromises(knownPeers) ==
  [i \in 1..Len(knownPeers) |-> Listen(knownPeers[i].pubKey)]

\* After storage.get: listen to every known peer, or pair with a new one.
ConnectPeers(t) ==
  /\ op[t] = "connect" /\ pc[t] = "awaitGet"
  /\ IF Len(peers[t]) > 0
       THEN /\ calls' = [calls EXCEPT ![t] = ConnectionPromises(peers[t])]
            /\ pc' = [pc EXCEPT ![t] = "awaitAll"]
            /\ UNCHANGED <<status, listeners, handshakeCalls, xpc>>
       ELSE IF isDapp
         THEN /\ ConnectNewPeer(t)
              /\ pc' = [pc EXCEPT ![t] = "awaitPair"]
              /\ UNCHANGED <<status, calls>>
         ELSE /\ SuperConnect
              /\ pc' = [pc EXCEPT ![t] = "done"]
              /\ UNCHANGED <<calls, listeners, handshakeCalls, xpc>>
  /\ UNCHANGED <<isDapp, listeningForChannelOpenings, storage, startCalls,
                 openChannelCalls, subs, emitted, named, op, arg, paired, peers,
                 rejected, info, cb>>

\* After Promise.all(connectionPromises): super.connect(), or connect rejects.
ConnectAll(t) ==
  /\ op[t] = "connect" /\ pc[t] = "awaitAll"
  /\ PromiseAll(calls[t], rejected[t]) # "pending"
  /\ IF PromiseAll(calls[t], rejected[t]) = "fulfilled"
       THEN /\ SuperConnect
            /\ pc' = [pc EXCEPT ![t] = "done"]
       ELSE /\ pc' = [pc EXCEPT ![t] = "failed"]
            /\ UNCHANGED status
  /\ UNCHANGED <<isDapp, listeningForChannelOpenings, storage, clientVars, emitted,
                 named, op, arg, xpc, paired, peers, calls, rejected, info, cb>>

\* After connectNewPeer's promise resolved: super.connect().
ConnectPaired(t) ==
  /\ op[t] = "connect" /\ pc[t] = "awaitPair"
  /\ paired[t]
  /\ SuperConnect
  /\ pc' = [pc EXCEPT ![t] = "done"]
  /\ UNCHANGED <<isDapp, listeningForChannelOpenings, storage, clientVars, emitted,
                 named, op, arg, xpc, paired, peers, calls, rejected, info, cb>>

\* ------------------------------------------- the new-peer callback
Rank(x, S) == Cardinality({y \in S : y <= x})

ConnectSuccess(c) == [ev |-> "P2P_CHANNEL_CONNECT_SUCCESS", data |-> NoRecipient, by |-> c]

\* The collaborator announces pubKey k: every installed callback is invoked and
\* runs up to its first await, storage.get.
NewPeerNotification(k) ==
  /\ listeners # {}
  /\ Cardinality(FreeCallbacks) >= Cardinality(listeners)
  /\ cb' = [c \in Callbacks |->
              IF c \in FreeCallbacks /\ Rank(c, FreeCallbacks) <= Cardinality(listeners)
                THEN [key |-> k,
                      owner |-> CHOOSE o \in listeners :
                                  Rank(o, listeners) = Rank(c, FreeCallbacks),
                      pc |-> "awaitGet", peers |-> storage, st |-> "none"]
                ELSE cb[c]]
  /\ k \in Nameable
  /\ named' = named \cup {k}
  /\ UNCHANGED <<isDapp, status, listeningForChannelOpenings, storage, clientVars,
                 emitted, taskVars>>

\* The list the callback hands to storage.set.
OnNewPeerList(list, pubKey) == Append(list, HandshakePeer(pubKey))

\* After storage.get: an unknown pubKey is pushed, storage.set is called and not
\* awaited, listen(pubKey) is called; a known one goes straight to the emit and
\* resolve().
OnNewPeerCheck(c) ==
  /\ cb[c].pc = "awaitGet"
  /\ IF ~SomePeer(cb[c].peers, cb[c].key)
       THEN /\ cb' = [cb EXCEPT ![c].peers = OnNewPeerList(cb[c].peers, cb[c].key),
                                ![c].st = Listen(cb[c].key).st,
                                ![c].pc = "awaitListen"]
            /\ storage' = cb'[c].peers
            /\ UNCHANGED <<emitted, paired>>
       ELSE /\ cb' = [cb EXCEPT ![c].pc = "done"]
            /\ emitted' = emitted \cup {ConnectSuccess(c)}
            /\ paired' = [paired EXCEPT ![cb[c].owner] = TRUE]
            /\ UNCHANGED storage
  /\ UNCHANGED <<isDapp, status, listeningForChannelOpenings, clientVars, named,
                 op, arg, pc, xpc, peers, calls, rejected, info>>

\* The same stretch when storage.set is rejected: the error is logged by the
\* .catch and listen(pubKey) is called all the same.
OnNewPeerSetRejected(c) ==
  /\ cb[c].pc = "awaitGet"
  /\ ~SomePeer(cb[c].peers, cb[c].key)
  /\ cb' = [cb EXCEPT ![c].peers = OnNewPeerList(cb[c].peers, cb[c].key),
                      ![c].st = Listen(cb[c].key).st,
                      ![c].pc = "awaitListen"]
  /\ UNCHANGED <<isDapp, status, listeningForChannelOpenings, storage, clientVars,
                 emitted, named, taskVars>>

\* client.listenForEncryptedMessage of callback c settles: installed, or failed.
OnNewPeerListenSettles(c, ok) ==
  /\ cb[c].pc = "awaitListen" /\ cb[c].st = "pending"
  /\ cb' = [cb EXCEPT ![c].st = IF ok THEN "ok" ELSE "failed"]
  /\ subs' = IF ok THEN [subs EXCEPT ![cb[c].key] = @ + 1] ELSE subs
  /\ UNCHANGED <<isDapp, status, listeningForChannelOpenings, storage, startCalls,
                 listeners, handshakeCalls, openChannelCalls, emitted, named,
                 taskVars>>

\* After listen settled: the success event is emitted and resolve() called; a
\* listen that failed rejects the callback before either.
OnNewPeerDone(c) ==
  /\ cb[c].pc = "awaitListen" /\ cb[c].st # "pending"
  /\ IF cb[c].st = "ok"
       THEN /\ cb' = [cb EXCEPT ![c].pc = "done"]
            /\ emitted' = emitted \cup {ConnectSuccess(c)}
            /\ paired' = [paired EXCEPT ![cb[c].owner] = TRUE]
       ELSE /\ cb' = [cb EXCEPT ![c].pc = "failed"]
            /\ UNCHANGED <<emitted, paired>>
  /\ UNCHANGED <<isDapp, status, listeningForChannelOpenings, storage, clientVars,
                 named, op, arg, pc, xpc, peers, calls, rejected, info>>

\* --------------------------------------------------------------- send
\* send(message, recipient), up to the first await: storage.get is called.
\* NoRecipient stands for an omitted (falsy) recipient.
Send(t, r) ==
  /\ Begin(t, "send", r, "awaitGet")
  /\ peers' = [peers EXCEPT ![t] = storage]
  /\ UNCHANGED <<isDapp, status, listeningForChannelOpenings, storage, clientVars,
                 emitted, xpc, paired, calls, rejected, info, cb>>

\* knownPeers.map((peer) => this.client.sendMessage(peer.pubKey, message))
BroadcastPromises(knownPeers) ==
  [i \in 1..Len(knownPeers) |-> Pending(knownPeers[i].pubKey)]

\* After storage.get: the unicast check and send, or the broadcast fan-out.
SendPeers(t) ==
  /\ op[t] = "send" /\ pc[t] = "awaitGet"
  /\ IF arg[t] # NoRecipient
       THEN IF ~SomePeer(peers[t], arg[t])
              THEN /\ pc' = [pc EXCEPT ![t] = "threwRecipientUnknown"]
                   /\ UNCHANGED calls
              ELSE /\ calls' = [calls EXCEPT ![t] = <<Pending(arg[t])>>]
                   /\ pc' = [pc EXCEPT ![t] = "awaitSend"]
       ELSE /\ calls' = [calls EXCEPT ![t] = BroadcastPromises(peers[t])]
            /\ pc' = [pc EXCEPT ![t] = "awaitAll"]
  /\ UNCHANGED <<isDapp, status, listeningForChannelOpenings, storage, clientVars,
                 emitted, named, op, arg, xpc, paired, peers, rejected, info, cb>>

\* client.sendMessage of call i of task t settles: acknowledged, or failed.
SendSettles(t, i, ok) ==
  /\ op[t] = "send"
  /\ i \in DOMAIN calls[t]
  /\ calls[t][i].st = "pending"
  /\ calls' = [calls EXCEPT ![t][i].st = IF ok THEN "ok" ELSE "failed"]
  /\ rejected' = IF ~ok /\ rejected[t] = 0 THEN [rejected EXCEPT ![t] = i] ELSE rejected
  /\ UNCHANGED <<isDapp, status, listeningForChannelOpenings, storage, clientVars,
                 emitted, named, op, arg, pc, xpc, paired, peers, info, cb>>

\* The returned promise (the one sendMessage, or Promise.all of the fan-out)
\* settles: send resolves, or rejects with the first rejection.
SendDone(t) ==
  /\ op[t] = "send" /\ pc[t] \in {"awaitSend", "awaitAll"}
  /\ PromiseAll(calls[t], rejected[t]) # "pending"
  /\ pc' = [pc EXCEPT ![t] =
              IF PromiseAll(calls[t], rejected[t]) = "fulfilled" THEN "done" ELSE "failed"]
  /\ UNCHANGED <<isDapp, status, listeningForChannelOpenings, storage, clientVars,
                 emitted, named, op, arg, xpc, paired, peers, calls, rejected,
                 info, cb>>

\* --------------------------------------------------------------- Next
Next ==
  \/ \E t \in Tasks, k \in PubKeys : AddPeer(t, k)
  \/ \E t \in Tasks : AddPeerCheck(t)
  \/ \E t \in Tasks : AddPeerSetRejected(t)
  \/ \E t \in Tasks : AddPeerOpenChannel(t)
  \/ \E t \in Tasks : AddPeerListen(t)
  \/ \E t \in Tasks : AddPeerDone(t)
  \/ \E t \in Tasks, k \in PubKeys : RemovePeer(t, k)
  \/ \E t \in Tasks : RemovePeerSet(t)
  \/ \E t \in Tasks : RemovePeerUnsubscribe(t)
  \/ \E t \in Tasks : RemoveAllPeers(t)
  \/ \E t \in Tasks : RemoveAllPeersUnsubscribe(t)
  \/ \E t \in Tasks, i \in 1..NumPeers, ok \in BOOLEAN : ListenSettles(t, i, ok)
  \/ \E t \in Tasks : ConnectNewPeerCall(t)
  \/ \E t \in Tasks : ConnectNewPeerListening(t)
  \/ \E t \in Tasks, h \in HandshakeInfos : ConnectNewPeerAdvertise(t, h)
  \/ \E t \in Tasks : ConnectNewPeerResolved(t)
  \/ \E t \in Tasks : Reconnect(t)
  \/ \E t \in Tasks : Connect(t)
  \/ \E t \in Tasks : ConnectGet(t)
  \/ \E t \in Tasks : ConnectPeers(t)
  \/ \E t \in Tasks : ConnectAll(t)
  \/ \E t \in Tasks : ConnectPaired(t)
  \/ \E k \in PubKeys : NewPeerNotification(k)
  \/ \E c \in Callbacks : OnNewPeerCheck(c)
  \/ \E c \in Callbacks : OnNewPeerSetRejected(c)
  \/ \E c \in Callbacks, ok \in BOOLEAN : OnNewPeerListenSettles(c, ok)
  \/ \E c \in Callbacks : OnNewPeerDone(c)
  \/ \E t \in Tasks, r \in PubKeys \cup {NoRecipient} : Send(t, r)
  \/ \E t \in Tasks : SendPeers(t)
  \/ \E t \in Tasks, i \in 1..NumPeers, ok \in BOOLEAN : SendSettles(t, i, ok)
  \/ \E t \in Tasks : SendDone(t)

Spec == Init /\ [][Next]_vars

\* ----------------------------------------------------- scoped machines
\* The registry: explicit adds and removes racing with each other and with the
\* handshake callback.
RegistryNext ==
  \/ \E t \in Tasks, k \in PubKeys : AddPeer(t, k)
  \/ \E t \in Tasks : AddPeerCheck(t)
  \/ \E t \in Tasks : AddPeerSetRejected(t)
  \/ \E t \in Tasks : AddPeerOpenChannel(t)
  \/ \E t \in Tasks : AddPeerListen(t)
  \/ \E t \in Tasks : AddPeerDone(t)
  \/ \E t \in Tasks, k \in PubKeys : RemovePeer(t, k)
  \/ \E t \in Tasks : RemovePeerSet(t)
  \/ \E t \in Tasks : RemovePeerUnsubscribe(t)
  \/ \E t \in Tasks : RemoveAllPeers(t)
  \/ \E t \in Tasks : RemoveAllPeersUnsubscribe(t)
  \/ \E t \in Tasks, i \in 1..NumPeers, ok \in BOOLEAN : ListenSettles(t, i, ok)
  \/ \E t \in Tasks : ConnectNewPeerCall(t)
  \/ \E t \in Tasks : ConnectNewPeerListening(t)
  \/ \E t \in Tasks, h \in HandshakeInfos : ConnectNewPeerAdvertise(t, h)
  \/ \E t \in Tasks : ConnectNewPeerResolved(t)
  \/ \E k \in PubKeys : NewPeerNotification(k)
  \/ \E c \in Callbacks : OnNewPeerCheck(c)
  \/ \E c \in Callbacks : OnNewPeerSetRejected(c)
  \/ \E c \in Callbacks, ok \in BOOLEAN : OnNewPeerListenSettles(c, ok)
  \/ \E c \in Callbacks : OnNewPeerDone(c)

\* No action of the registry reads the role.
RegistryInit == Init /\ isDapp = TRUE

RegistrySpec == RegistryInit /\ [][RegistryNext]_vars

\* The lifecycle: connect, reconnect and connectNewPeer, with new peers announced.
ConnectNext ==
  \/ \E t \in Tasks : Connect(t)
  \/ \E t \in Tasks : ConnectGet(t)
  \/ \E t \in Tasks : ConnectPeers(t)
  \/ \E t \in Tasks : ConnectAll(t)
  \/ \E t \in Tasks : ConnectPaired(t)
  \/ \E t \in Tasks : Reconnect(t)
  \/ \E t \in Tasks : ConnectNewPeerCall(t)
  \/ \E t \in Tasks : ConnectNewPeerListening(t)
  \/ \E t \in Tasks, h \in HandshakeInfos : ConnectNewPeerAdvertise(t, h)
  \/ \E t \in Tasks : ConnectNewPeerResolved(t)
  \/ \E t \in Tasks, i \in 1..NumPeers, ok \in BOOLEAN : ListenSettles(t, i, ok)
  \/ \E k \in PubKeys : NewPeerNotification(k)
  \/ \E c \in Callbacks : OnNewPeerCheck(c)
  \/ \E c \in Callbacks : OnNewPeerSetRejected(c)
  \/ \E c \in Callbacks, ok \in BOOLEAN : OnNewPeerListenSettles(c, ok)
  \/ \E c \in Callbacks : OnNewPeerDone(c)

ConnectSpec == Init /\ [][ConnectNext]_vars

\* The steps of the lifecycle that need no new call and no new announcement: the
\* continuation of a call after an await it is suspended in returned, and a
\* pending collaborator call settling.
ConnectProgress ==
  \/ \E t \in Tasks : ConnectGet(t)
  \/ \E t \in Tasks : ConnectPeers(t)
  \/ \E t \in Tasks : ConnectAll(t)
  \/ \E t \in Tasks : ConnectPaired(t)
  \/ \E t \in Tasks : ConnectNewPeerListening(t)
  \/ \E t \in Tasks, h \in HandshakeInfos : ConnectNewPeerAdvertise(t, h)
  \/ \E t \in Tasks : ConnectNewPeerResolved(t)
  \/ \E t \in Tasks, i \in 1..NumPeers, ok \in BOOLEAN : ListenSettles(t, i, ok)
  \/ \E c \in Callbacks : OnNewPeerCheck(c)
  \/ \E c \in Callbacks : OnNewPeerSetRejected(c)
  \/ \E c \in Callbacks, ok \in BOOLEAN : OnNewPeerListenSettles(c, ok)
  \/ \E c \in Callbacks : OnNewPeerDone(c)

\* The lifecycle when every collaborator call returns and the event loop runs
\* every continuation that is ready.  Nothing obliges a caller to call, or the
\* collaborator to announce a new peer.
ConnectFairSpec == ConnectSpec /\ WF_vars(ConnectProgress)

\* Pairing: reconnect and connectNewPeer with new peers announced, under the same
\* scheduling as ConnectFairSpec.
PairingNext ==
  \/ \E t \in Tasks : Reconnect(t)
  \/ \E t \in Tasks : ConnectNewPeerCall(t)
  \/ \E t \in Tasks : ConnectNewPeerListening(t)
  \/ \E t \in Tasks, h \in HandshakeInfos : ConnectNewPeerAdvertise(t, h)
  \/ \E t \in Tasks : ConnectNewPeerResolved(t)
  \/ \E k \in PubKeys : NewPeerNotification(k)
  \/ \E c \in Callbacks : OnNewPeerCheck(c)
  \/ \E c \in Callbacks : OnNewPeerSetRejected(c)
  \/ \E c \in Callbacks, ok \in BOOLEAN : OnNewPeerListenSettles(c, ok)
  \/ \E c \in Callbacks : OnNewPeerDone(c)

PairingFairSpec == Init /\ [][PairingNext]_vars /\ WF_vars(ConnectProgress)

\* Routing: sends racing with each other and with removals.
SendNext ==
  \/ \E t \in Tasks, r \in PubKeys \cup {NoRecipient} : Send(t, r)
  \/ \E t \in Tasks : SendPeers(t)
  \/ \E t \in Tasks, i \in 1..NumPeers, ok \in BOOLEAN : SendSettles(t, i, ok)
  \/ \E t \in Tasks : SendDone(t)
  \/ \E t \in Tasks, k \in PubKeys : RemovePeer(t, k)
  \/ \E t \in Tasks : RemovePeerSet(t)
  \/ \E t \in Tasks : RemovePeerUnsubscribe(t)

\* No action of the routing reads the role.
SendInit == Init /\ isDapp = TRUE

SendSpec == SendInit /\ [][SendNext]_vars

\* =============================================================== claims
Finished(t) == pc[t] \in {"done", "failed", "threwRecipientUnknown"}

\* addPeer call t took the insertion branch and storage.set accepted its list.
Inserted(t) ==
  /\ op[t] = "addPeer"
  /\ \/ pc[t] \in {"awaitSet", "awaitOpen", "awaitListen"}
     \/ pc[t] \in {"done", "failed"} /\ calls[t] # <<>>

\* ------------------------------------------------------------------ C1
\* C1: in every reachable state, under any interleaving of addPeer, the handshake
\* new-peer callback, removePeer and removeAllPeers, the persisted peer list holds
\* at most one record per pubKey.
C1_AtMostOneRecordPerPubKey == NoDuplicates(storage)

\* Two addPeer calls for one pubKey both pushed it, and it is persisted.
C1_Witness ==
  \E t1, t2 \in Tasks :
    /\ t1 # t2 /\ arg[t1] = arg[t2]
    /\ Inserted(t1) /\ Inserted(t2)
    /\ SomePeer(storage, arg[t1])

\* ------------------------------------------------------------------ C2
\* C2: of two addPeer calls for the same pubKey in flight at the same time at most
\* one takes the insertion branch.  With no removal ever called, two insertions of
\* one pubKey can only come from such an overlap.
C2_AtMostOneInsertion ==
  (\A t \in Tasks : op[t] \notin {"removePeer", "removeAllPeers"}) =>
    \A t1, t2 \in Tasks :
      (t1 # t2 /\ arg[t1] = arg[t2]) => ~(Inserted(t1) /\ Inserted(t2))

\* ------------------------------------------------------------------ C3
RegistryQuiet ==
  /\ \A t \in Tasks : op[t] \in {"addPeer", "removePeer", "removeAllPeers"} => Finished(t)
  /\ \A c \in Callbacks : cb[c].pc \in {"free", "done", "failed"}

Removing(k) ==
  \E t \in Tasks : \/ op[t] = "removePeer" /\ arg[t] = k
                   \/ op[t] = "removeAllPeers"

Adding(k) ==
  \/ \E t \in Tasks : op[t] = "addPeer" /\ arg[t] = k
  \/ \E c \in Callbacks : cb[c].pc # "free" /\ cb[c].key = k

\* C3: registry mutations do not lose updates: once every addPeer, removePeer and
\* callback has completed, a pubKey some addPeer completed for and nobody removed
\* is persisted, and a pubKey some removePeer completed for and nobody added is not.
C3_NoLostUpdate ==
  RegistryQuiet =>
    \A t \in Tasks :
      /\ (op[t] = "addPeer" /\ pc[t] = "done" /\ ~Removing(arg[t]))
           => SomePeer(storage, arg[t])
      /\ (op[t] = "removePeer" /\ pc[t] = "done" /\ ~Adding(arg[t]))
           => ~SomePeer(storage, arg[t])

\* ------------------------------------------------------------------ C4
\* C4: client.listenForChannelOpening is called at most once per transport, over
\* any sequence of connect, reconnect and connectNewPeer calls, overlapping or not.
C4_ListenerInstalledOnce == Cardinality(listeners) <= 1

\* ------------------------------------------------------------------ C5
\* The stretch of send after its read, for a recipient the list read does not hold.
C5_UnknownRecipientStep(t) ==
  (/\ op[t] = "send" /\ pc[t] = "awaitGet" /\ pc'[t] # "awaitGet"
   /\ arg[t] # NoRecipient
   /\ arg[t] \notin PubKeysOf(peers[t]))
    => /\ pc'[t] = "threwRecipientUnknown"
       /\ calls'[t] = <<>>
       /\ UNCHANGED <<storage, clientVars, emitted>>

\* C5: a send whose recipient is not in the registry it read throws the
\* unknown-recipient error in the stretch that follows the read, calls sendMessage
\* for nobody, and leaves the registry, the subscriptions and every other
\* collaborator counter as they were.
C5_UnknownRecipient ==
  /\ [](\A t \in Tasks : pc[t] = "threwRecipientUnknown" => calls[t] = <<>>)
  /\ [][\A t \in Tasks : C5_UnknownRecipientStep(t)]_vars

\* A unicast send threw although the registry was not empty.
C5_Witness ==
  \E t \in Tasks :
    /\ op[t] = "send" /\ pc[t] = "threwRecipientUnknown"
    /\ peers[t] # <<>> /\ arg[t] \notin PubKeysOf(peers[t])

\* ------------------------------------------------------------------ C6
Broadcast(t) == op[t] = "send" /\ arg[t] = NoRecipient

\* C6: a broadcast does not complete, with success or with failure, before every
\* per-peer send has settled.
C6_BroadcastWaitsForAll ==
  \A t \in Tasks : (Broadcast(t) /\ Finished(t)) => Settled(calls[t])

\* ------------------------------------------------------------------ C7
FailedRecipients(t) == {calls[t][i].to : i \in {j \in DOMAIN calls[t] : calls[t][j].st = "failed"}}

\* The recipients the error a broadcast rejected with speaks of: the one whose
\* sendMessage rejected first.
NamedRecipients(t) == IF rejected[t] = 0 THEN {} ELSE {calls[t][rejected[t]].to}

OneCallEach(t) ==
  /\ Len(calls[t]) = Len(peers[t])
  /\ \A k \in PubKeysOf(peers[t]) :
       Cardinality({i \in DOMAIN calls[t] : calls[t][i].to = k}) = 1

\* C7: a broadcast in which sendMessage fails for a non-empty set F of peers
\* completes with a failure naming exactly F, after exactly one sendMessage per
\* registry peer.
C7_BroadcastNamesFailures ==
  \A t \in Tasks :
    (Broadcast(t) /\ Finished(t) /\ Settled(calls[t]) /\ FailedRecipients(t) # {})
      => /\ pc[t] = "failed"
         /\ NamedRecipients(t) = FailedRecipients(t)
         /\ OneCallEach(t)

\* ------------------------------------------------------------------ C8
\* C8: connect() over a non-empty registry ends with the state CONNECTED, also when
\* the listen setup of some known peer fails.
C8_ConnectEndsConnected ==
  \A t \in Tasks :
    (op[t] = "connect" /\ Len(peers[t]) > 0 /\ Finished(t)) => status = "CONNECTED"

\* ------------------------------------------------------------------ C9
\* C9: connect() over a registry of known peers calls listen exactly once for each
\* of them, all in the one stretch before it awaits any, and resolves only after
\* every one of them has settled.
C9_ConnectListensToAll ==
  \A t \in Tasks :
    op[t] = "connect" =>
      /\ pc[t] \in {"awaitStart", "awaitGet", "awaitPair"} => calls[t] = <<>>
      /\ (pc[t] \in {"awaitAll", "done", "failed"} /\ Len(peers[t]) > 0) => OneCallEach(t)
      /\ (pc[t] = "done" /\ Len(peers[t]) > 0) => Settled(calls[t])

\* connect() resolved over two known peers.
C9_Witness ==
  \E t \in Tasks :
    /\ op[t] = "connect" /\ pc[t] = "done"
    /\ Len(peers[t]) >= 2 /\ AllOk(calls[t])

\* ----------------------------------------------------------------- C10
Advertisements(t) == {e \in emitted : e.ev = "P2P_LISTEN_FOR_CHANNEL_OPEN" /\ e.by = t}

\* C10: connect() in the initiator role over an empty registry, no other call being
\* made: client.start() is called once, listenForChannelOpening once,
\* getHandshakeInfo() once and what it returned is the payload of the one
\* advertisement emitted; connect calls openChannel and listen for no peer.
C10_InitiatorEmptyRegistry ==
  \A t \in Tasks :
    (/\ op[t] = "connect" /\ isDapp
     /\ pc[t] \in {"awaitPair", "done"} /\ peers[t] = <<>>
     /\ \A u \in Tasks \ {t} : op[u] = "idle")
      => /\ startCalls = 1
         /\ listeners = {t}
         /\ calls[t] = <<>>
         /\ \A k \in PubKeys : openChannelCalls[k] = 0
         /\ (\A c \in Callbacks : cb[c].pc = "free") => \A k \in PubKeys : subs[k] = 0
         /\ xpc[t] # "done" => Advertisements(t) = {}
         /\ xpc[t] = "done" =>
              /\ handshakeCalls = 1
              /\ info[t] \in HandshakeInfos
              /\ Advertisements(t) =
                   {[ev |-> "P2P_LISTEN_FOR_CHANNEL_OPEN", data |-> info[t], by |-> t]}

\* The advertisement is out and connect() still waits for a peer.
C10_Witness ==
  \E t \in Tasks :
    /\ op[t] = "connect" /\ isDapp /\ pc[t] = "awaitPair" /\ peers[t] = <<>>
    /\ \A u \in Tasks \ {t} : op[u] = "idle"
    /\ xpc[t] = "done" /\ info[t] = "hs2"
    /\ Advertisements(t) # {}

\* ----------------------------------------------------------------- C11
\* C11: connect() in the initiator role over an empty registry, once the transport
\* is started, the list read, the handshake listener installed and the
\* advertisement emitted, eventually makes the state CONNECTED, every collaborator
\* call returning, whether or not a new peer is ever announced.
C11_ConnectEventuallyConnected ==
  \A t \in Tasks :
    (/\ op[t] = "connect" /\ isDapp /\ peers[t] = <<>>
     /\ pc[t] = "awaitPair" /\ xpc[t] = "done")
      ~> (status = "CONNECTED")

\* ----------------------------------------------------------------- C12
\* Task slots are taken in order, so u < t says call u started before call t.
StartedAfter(t) == {u \in Tasks : u > t /\ op[u] # "idle"}

\* C12: when removeAllPeers() completes, with its one bulk unsubscribe, the
\* registry is empty and no inbound subscription is left, also when calls that
\* were in flight when it started are the only other calls there are.
C12_RemoveAllPeersEmpties ==
  [][\A t \in Tasks :
       (/\ op[t] = "removeAllPeers" /\ pc[t] = "awaitSet" /\ pc'[t] = "done"
        /\ StartedAfter(t) = {}
        /\ \A c \in Callbacks : cb[c].pc = "free")
         => /\ storage' = <<>>
            /\ \A k \in PubKeys : subs'[k] = 0]_vars

\* ----------------------------------------------------------------- C13
Records(list, k) == {i \in DOMAIN list : list[i].pubKey = k}

\* Calls t1 and t2 are the only activity there has been.
OnlyCalls(t1, t2) ==
  /\ \A u \in Tasks \ {t1, t2} : op[u] = "idle"
  /\ \A c \in Callbacks : cb[c].pc = "free"

\* addPeer(P) is called in slot t2 after the addPeer(P) of slot t1 completed: the
\* list the second call reads holds P.
C13_SecondReadStep(t1, t2) ==
  (/\ op[t1] = "addPeer" /\ pc[t1] = "done"
   /\ op[t2] = "idle" /\ op'[t2] = "addPeer" /\ arg'[t2] = arg[t1]
   /\ OnlyCalls(t1, t2))
    => arg[t1] \in PubKeysOf(peers'[t2])

\* The stretch of addPeer after its read, for a pubKey the list read holds.
C13_NoOpStep(t) ==
  (/\ op[t] = "addPeer" /\ pc[t] = "awaitGet" /\ pc'[t] # "awaitGet"
   /\ arg[t] \in PubKeysOf(peers[t]))
    => /\ pc'[t] = "done"
       /\ calls'[t] = <<>>
       /\ UNCHANGED <<storage, clientVars, emitted>>

\* C13: addPeer called twice in sequence for one peer P, nothing else running: the
\* second call reads a list that holds P, so it completes without a storage write,
\* an openChannel call or a listen call, and exactly one record with P's pubKey is
\* persisted.
C13_AddPeerIdempotent ==
  /\ [][\A t1, t2 \in Tasks : C13_SecondReadStep(t1, t2)]_vars
  /\ [][\A t \in Tasks : C13_NoOpStep(t)]_vars
  /\ [](\A t1, t2 \in Tasks :
          (/\ t1 < t2 /\ OnlyCalls(t1, t2)
           /\ op[t1] = "addPeer" /\ op[t2] = "addPeer" /\ arg[t1] = arg[t2]
           /\ pc[t1] = "done" /\ pc[t2] = "done" /\ calls[t2] = <<>>)
            => /\ Cardinality(Records(storage, arg[t1])) = 1
               /\ openChannelCalls[arg[t1]] <= 1
               /\ subs[arg[t1]] <= 1)

\* The first addPeer inserted, opened the channel and listens; the second one
\* for the same pubKey completed and did nothing.
C13_Witness ==
  \E t1, t2 \in Tasks :
    /\ t1 < t2 /\ OnlyCalls(t1, t2)
    /\ op[t1] = "addPeer" /\ op[t2] = "addPeer" /\ arg[t1] = arg[t2]
    /\ pc[t1] = "done" /\ AllOk(calls[t1]) /\ calls[t1] # <<>>
    /\ pc[t2] = "done" /\ calls[t2] = <<>>
    /\ openChannelCalls[arg[t1]] = 1 /\ subs[arg[t1]] = 1
    /\ Cardinality(Records(storage, arg[t1])) = 1

\* ----------------------------------------------------------------- C14
\* C14: the transport state never moves backwards: once CONNECTED it stays
\* CONNECTED whatever is called, and once CONNECTING it never is NOT_CONNECTED
\* again.
C14_StateNeverMovesBack ==
  [][/\ status = "CONNECTED" => status' = "CONNECTED"
     /\ status = "CONNECTING" => status' # "NOT_CONNECTED"]_vars

\* ----------------------------------------------------------------- C15
\* C15: for no identity does client.listenForEncryptedMessage install an inbound
\* subscription a second time with no unsubscribe for that identity in between;
\* stated for the runs in which no handshake listener is installed, so that the
\* subscriptions are those of addPeer alone.
C15_SubscribedOnce == (listeners = {}) => \A k \in PubKeys : subs[k] <= 1

\* ----------------------------------------------------------------- C16
\* The stretch of the new-peer callback that follows its read, run while the
\* persisted registry holds the announced pubKey.
C16_KnownPubKeyStep(c) ==
  (/\ cb[c].pc = "awaitGet" /\ cb'[c].pc # "awaitGet"
   /\ cb[c].key \in PubKeysOf(storage))
    => /\ cb'[c].pc = "done" /\ cb'[c].st = "none"
       /\ ConnectSuccess(c) \in emitted'
       /\ UNCHANGED <<storage, clientVars>>

\* C16: a new-peer callback that handles a pubKey the registry already holds
\* inserts nothing, sets up no channel and no subscription, and emits
\* P2P_CHANNEL_CONNECT_SUCCESS; also when another notification, or an addPeer, for
\* the same pubKey is being processed at the same time.
C16_KnownPubKeyNoSetup == [][\A c \in Callbacks : C16_KnownPubKeyStep(c)]_vars

\* ----------------------------------------------------------------- C17
\* Callback c emits P2P_CHANNEL_CONNECT_SUCCESS in this step.
EmitsSuccess(c) == ConnectSuccess(c) \notin emitted /\ ConnectSuccess(c) \in emitted'

\* C17: when a new-peer callback emits P2P_CHANNEL_CONNECT_SUCCESS the announced
\* peer is in the persisted registry, and the listen the callback called for it,
\* if it called one, has succeeded: persist, then subscribe, then emit.
C17_PersistSubscribeEmit ==
  [][\A c \in Callbacks :
       EmitsSuccess(c) => /\ cb[c].key \in PubKeysOf(storage')
                          /\ cb[c].st \in {"none", "ok"}]_vars

\* ----------------------------------------------------------------- C18
\* The stretch of addPeer after its read whose storage.set is rejected: the list
\* addPeer built is not the persisted one.
C18_AddPeerStep(t) ==
  (/\ op[t] = "addPeer" /\ pc[t] = "awaitGet" /\ pc'[t] # "awaitGet"
   /\ arg[t] \notin PubKeysOf(peers[t])
   /\ storage' # AddPeerList(peers[t], PeerArg(arg[t])))
    => /\ pc'[t] = "failed" /\ calls'[t] = <<>>
       /\ UNCHANGED <<storage, clientVars, emitted>>

\* The same stretch of the new-peer callback.
C18_CallbackStep(c) ==
  (/\ cb[c].pc = "awaitGet" /\ cb'[c].pc # "awaitGet"
   /\ cb[c].key \notin PubKeysOf(cb[c].peers)
   /\ storage' # OnNewPeerList(cb[c].peers, cb[c].key))
    => /\ cb'[c].pc = "failed" /\ cb'[c].st = "none"
       /\ UNCHANGED <<storage, clientVars, emitted>>

\* C18: when storage.set is rejected while addPeer or the new-peer callback
\* persists a peer, the operation fails there: no channel is opened, listen is not
\* called and P2P_CHANNEL_CONNECT_SUCCESS is not emitted for that peer.
C18_StorageFailureStops ==
  [][/\ \A t \in Tasks : C18_AddPeerStep(t)
     /\ \A c \in Callbacks : C18_CallbackStep(c)]_vars

\* ----------------------------------------------------------------- C19
\* C19: whenever no addPeer, removePeer, removeAllPeers or new-peer callback is in
\* flight, every identity with an active inbound subscription is in the persisted
\* registry; stated for the runs in which no handshake listener is installed, so
\* that the interleavings are those of addPeer, removePeer and removeAllPeers.
C19_SubscriptionsInRegistry ==
  (listeners = {} /\ RegistryQuiet) =>
    \A k \in PubKeys : subs[k] > 0 => k \in PubKeysOf(storage)

\* ----------------------------------------------------------------- C20
\* Call t is reconnect() or connectNewPeer() in the initiator role, waiting for
\* connectNewPeer's promise.
AwaitsPairing(t) ==
  op[t] \in {"reconnect", "connectNewPeer"} /\ isDapp /\ pc[t] = "awaitPair"

\* A new peer has been announced, and every callback the announcements invoked
\* has run to its end, its listen succeeding.
NotificationHandled ==
  /\ \E c \in Callbacks : cb[c].pc # "free"
  /\ \A c \in Callbacks : cb[c].pc \in {"free", "done"}

\* C20: a reconnect() or connectNewPeer() call that is waiting when no new-peer
\* notification has been delivered yet completes once a notification delivered
\* later has been handled to its end, whether the call installed the handshake
\* listener itself or found it installed.
C20_PairingCallCompletes ==
  \A t \in Tasks :
    []((AwaitsPairing(t) /\ \A c \in Callbacks : cb[c].pc = "free")
         => [](NotificationHandled => <>(pc[t] = "done")))

====
